---- MODULE Spec2Model ----
(***************************************************************************)
(* Model of crates/krilla/scripts/generate_tags.py: the schema-driven      *)
(* generator of the PDF tag records, their bucket accessors, the TagKind   *)
(* union and the Tag facade.                                               *)
(*                                                                         *)
(* Generated Rust text is modelled structurally: a fragment is a record    *)
(* naming what the emitted text declares (fields, initialisers, push       *)
(* statements, match arms).  Rust types are sequences of tokens, so that   *)
(* "Option<TagId>" is <<"Option<", "TagId", ">">>.  Doc comments are not   *)
(* modelled.  The emitted accessors are then interpreted on record values  *)
(* (a map from field name to present/absent) built by the emitted          *)
(* constructors and setters.                                               *)
(***************************************************************************)
EXTENDS Integers, Sequences, FiniteSets, TLC

VARIABLES
    schema_name,  \* which schema the module-level TAG_SCHEMA is bound to
    pc,           \* position of main()
    components,   \* generate_rust_code: the list of fragments built so far
    idx,          \* generate_rust_code: index of the next tag of the loop
    rust_code,    \* main: the generated text, once returned
    file,         \* content of src/interchange/tagging/generated.rs
    val,          \* a value of a generated record, built with the emitted API
    run,          \* number of the current run of main
    prev_file,    \* content of the output file at the end of the previous run
    snake         \* snake_case: the frame of a call (name, i, result)

vars == <<schema_name, pc, components, idx, rust_code, file, val, run, prev_file, snake>>

\* Number of runs of main that are followed.
MaxRuns == 2
\* Largest number of optional fields of one value that are given a value.
MaxSet == 2
\* Longest identifier given to snake_case.
MaxLen == 4

-----------------------------------------------------------------------------
(* Schema                                                                  *)

Ty(t) == <<t>>
Opt(t) == <<"Option<", t, ">">>

\* A Python dict without keys.
EmptyDict == [k \in {} |-> 0]

Req(n, t) == [name |-> n, type |-> t]
OptAttr(n, t, c) == [name |-> n, type |-> t, category |-> c]

SmallVecTagId == <<"SmallVec<[TagId; 1]", ">">>

PlainTag(n) == [name |-> n, attrs |-> EmptyDict]

FigureAttrs ==
    [optional |-> << OptAttr("bbox", Ty("Rect"), "layout_attr"),
                     OptAttr("width", Ty("f32"), "layout_attr"),
                     OptAttr("height", Ty("f32"), "layout_attr") >>]

CellOptional ==
    << OptAttr("headers", SmallVecTagId, "table_attr"),
       OptAttr("span", Ty("TableCellSpan"), "table_attr"),
       OptAttr("width", Ty("f32"), "layout_attr"),
       OptAttr("height", Ty("f32"), "layout_attr") >>

TAG_SCHEMA ==
    [tags |-> <<
        PlainTag("Part"), PlainTag("Article"), PlainTag("Section"),
        PlainTag("BlockQuote"), PlainTag("Caption"), PlainTag("TOC"),
        PlainTag("TOCI"), PlainTag("Index"), PlainTag("P"),
        [name |-> "Hn",
         attrs |-> [required |-> << Req("level", Ty("NonZeroU32")) >>,
                    optional |-> << >>]],
        [name |-> "L",
         attrs |-> [required |-> << Req("numbering", Ty("ListNumbering")) >>]],
        PlainTag("LI"), PlainTag("Lbl"), PlainTag("LBody"),
        [name |-> "Table",
         attrs |-> [optional |-> << OptAttr("summary", Ty("String"), "table_attr"),
                                    OptAttr("bbox", Ty("Rect"), "layout_attr"),
                                    OptAttr("width", Ty("f32"), "layout_attr"),
                                    OptAttr("height", Ty("f32"), "layout_attr") >>]],
        PlainTag("TR"),
        [name |-> "TH",
         attrs |-> [required |-> << Req("scope", Ty("TableHeaderScope")) >>,
                    optional |-> CellOptional]],
        [name |-> "TD", attrs |-> [optional |-> CellOptional]],
        PlainTag("THead"), PlainTag("TBody"), PlainTag("TFoot"),
        PlainTag("InlineQuote"), PlainTag("Note"), PlainTag("Reference"),
        PlainTag("BibEntry"), PlainTag("Code"), PlainTag("Link"),
        PlainTag("Annot"),
        [name |-> "Figure", attrs |-> FigureAttrs],
        [name |-> "Formula", attrs |-> FigureAttrs],
        PlainTag("Datetime"), PlainTag("Terms"), PlainTag("Title") >>,
     global_attrs |-> <<
        Req("id", Opt("TagId")),
        Req("lang", Opt("String")),
        Req("alt_text", Opt("String")),
        Req("expanded", Opt("String")),
        Req("actual_text", Opt("String")),
        Req("location", Opt("Location")),
        Req("placement", Opt("Placement")),
        Req("writing_mode", Opt("WritingMode")),
        Req("title", Opt("String")) >>]

\* TAG_SCHEMA edited to declare the tag P a second time.
DuplicateTagSchema == [TAG_SCHEMA EXCEPT !.tags = Append(@, PlainTag("P"))]

\* TAG_SCHEMA edited to give the summary of Table a category that is none
\* of the known ones.
UnknownCategorySchema ==
    [TAG_SCHEMA EXCEPT !.tags[15].attrs.optional[1].category = "grid_attr"]

\* The schema the emitters read.
schema ==
    IF schema_name = "duplicate_tag" THEN DuplicateTagSchema
    ELSE IF schema_name = "unknown_category" THEN UnknownCategorySchema
    ELSE TAG_SCHEMA

-----------------------------------------------------------------------------
(* Python helpers                                                          *)

\* d.get(key, []) of a dict of lists
GetList(d, key) == IF key \in DOMAIN d THEN d[key] ELSE << >>

\* any(a['name'] == n for a in list)
AnyNamed(list, n) == \E i \in DOMAIN list : list[i].name = n

Range(s) == { s[i] : i \in DOMAIN s }

\* str.startswith('Option<') on a tokenised type
StartsWithOption(type) == Len(type) > 0 /\ type[1] = "Option<"

\* type.replace('Option<', '').replace('>', '') on a tokenised type
StripOption(type) == SelectSeq(type, LAMBDA tok : tok # "Option<" /\ tok # ">")

-----------------------------------------------------------------------------
(* Record Emitter                                                          *)

Field(attr, type) == [name |-> attr.name, type |-> type]

\* Variant: the declared type is used as it is.
OptionalFieldType_Unwrapped(type_str) == type_str

\* The type given to the field of an optional attribute.
OptionalFieldType(type_str) ==
    IF ~StartsWithOption(type_str) THEN <<"Option<">> \o type_str \o <<">">>
    ELSE type_str

generate_struct_fields(attrs, global_attrs) ==
    [i \in DOMAIN global_attrs |-> Field(global_attrs[i], global_attrs[i].type)]
    \o (IF "required" \in DOMAIN attrs
        THEN [i \in DOMAIN attrs.required |->
                 Field(attrs.required[i], attrs.required[i].type)]
        ELSE << >>)
    \o (IF "optional" \in DOMAIN attrs
        THEN [i \in DOMAIN attrs.optional |->
                 Field(attrs.optional[i], OptionalFieldType(attrs.optional[i].type))]
        ELSE << >>)

\* A field initialiser of a struct expression: "name," takes the parameter
\* of that name, "name: None," leaves the field absent.
InitParam(attr) == [name |-> attr.name, value |-> "param"]
InitNone(attr) == [name |-> attr.name, value |-> "None"]

generate_constructor(tag_name, attrs) ==
    LET required == GetList(attrs, "required")
        params == [i \in DOMAIN required |-> Field(required[i], required[i].type)]
        inits ==
            [i \in DOMAIN required |-> InitParam(required[i])]
            \o (IF "optional" \in DOMAIN attrs
                THEN [i \in DOMAIN attrs.optional |-> InitNone(attrs.optional[i])]
                ELSE << >>)
            \o [i \in DOMAIN schema.global_attrs |-> InitNone(schema.global_attrs[i])]
    IN  [fn |-> "new", params |-> params, inits |-> inits]

\* The names the global-attribute setters are emitted for.
BuilderGlobalNames ==
    {"id", "lang", "alt_text", "expanded", "actual_text", "location",
     "placement", "writing_mode", "title"}

Setter(attr, type) ==
    [method |-> <<"with_", attr.name>>, field |-> attr.name, param |-> type]

generate_builder_methods(tag_name, attrs) ==
    (IF "optional" \in DOMAIN attrs
     THEN [i \in DOMAIN attrs.optional |->
              Setter(attrs.optional[i], attrs.optional[i].type)]
     ELSE << >>)
    \o [i \in DOMAIN SelectSeq(schema.global_attrs,
                               LAMBDA a : a.name \in BuilderGlobalNames) |->
           LET attr == SelectSeq(schema.global_attrs,
                                 LAMBDA a : a.name \in BuilderGlobalNames)[i]
           IN  Setter(attr, StripOption(attr.type))]

-----------------------------------------------------------------------------
(* Bucket Accessor Emitter                                                 *)

\* "if let Some(..) = self.<field> { attrs.items.push(<entry>(..)); }"
PushIfSome(field, entry) == [guard |-> field, entry |-> entry, arg |-> field]
\* "attrs.items.push(<entry>(self.<field>));"
Unconditional == ""
PushAlways(field, entry) == [guard |-> Unconditional, entry |-> entry, arg |-> field]

\* Variant: the list item is taken for a list as well.
list_attrs_impl_ListItem(name) ==
    IF name \in {"L", "LI"} THEN << PushAlways("numbering", "ListAttr::Numbering") >>
    ELSE << >>

list_attrs_impl(name) ==
    IF name = "L" THEN << PushAlways("numbering", "ListAttr::Numbering") >>
    ELSE << >>

\* Variant: cell headers and span are emitted for the header cell only.
table_attrs_items_HeaderCellOnly(name, attrs) ==
    (IF name = "Table" /\ "optional" \in DOMAIN attrs
        /\ AnyNamed(attrs.optional, "summary")
     THEN << PushIfSome("summary", "TableAttr::Summary") >> ELSE << >>)
    \o (IF name = "TH"
        THEN << PushAlways("scope", "TableAttr::HeaderScope") >> ELSE << >>)
    \o (IF name \in {"TH"} /\ "optional" \in DOMAIN attrs
        THEN (IF AnyNamed(attrs.optional, "headers")
              THEN << PushIfSome("headers", "TableAttr::CellHeaders") >> ELSE << >>)
             \o (IF AnyNamed(attrs.optional, "span")
                 THEN << PushIfSome("span", "TableAttr::CellSpan") >> ELSE << >>)
        ELSE << >>)

\* Variant: the header scope is pushed by the data cell instead.
table_attrs_items_ScopeOnTD(name, attrs) ==
    (IF name = "Table" /\ "optional" \in DOMAIN attrs
        /\ AnyNamed(attrs.optional, "summary")
     THEN << PushIfSome("summary", "TableAttr::Summary") >> ELSE << >>)
    \o (IF name = "TD"
        THEN << PushAlways("scope", "TableAttr::HeaderScope") >> ELSE << >>)
    \o (IF name \in {"TH", "TD"} /\ "optional" \in DOMAIN attrs
        THEN (IF AnyNamed(attrs.optional, "headers")
              THEN << PushIfSome("headers", "TableAttr::CellHeaders") >> ELSE << >>)
             \o (IF AnyNamed(attrs.optional, "span")
                 THEN << PushIfSome("span", "TableAttr::CellSpan") >> ELSE << >>)
        ELSE << >>)

table_attrs_items(name, attrs) ==
    (IF name = "Table" /\ "optional" \in DOMAIN attrs
        /\ AnyNamed(attrs.optional, "summary")
     THEN << PushIfSome("summary", "TableAttr::Summary") >> ELSE << >>)
    \o (IF name = "TH"
        THEN << PushAlways("scope", "TableAttr::HeaderScope") >> ELSE << >>)
    \o (IF name \in {"TH", "TD"} /\ "optional" \in DOMAIN attrs
        THEN (IF AnyNamed(attrs.optional, "headers")
              THEN << PushIfSome("headers", "TableAttr::CellHeaders") >> ELSE << >>)
             \o (IF AnyNamed(attrs.optional, "span")
                 THEN << PushIfSome("span", "TableAttr::CellSpan") >> ELSE << >>)
        ELSE << >>)

\* Variant: the height entry is left out.
layout_attrs_items_NoHeight(attrs) ==
    IF "optional" \in DOMAIN attrs
    THEN (IF AnyNamed(attrs.optional, "bbox")
          THEN << PushIfSome("bbox", "LayoutAttr::BBox") >> ELSE << >>)
         \o (IF AnyNamed(attrs.optional, "width")
             THEN << PushIfSome("width", "LayoutAttr::Width") >> ELSE << >>)
    ELSE << >>

layout_attrs_items(attrs) ==
    IF "optional" \in DOMAIN attrs
    THEN (IF AnyNamed(attrs.optional, "bbox")
          THEN << PushIfSome("bbox", "LayoutAttr::BBox") >> ELSE << >>)
         \o (IF AnyNamed(attrs.optional, "width")
             THEN << PushIfSome("width", "LayoutAttr::Width") >> ELSE << >>)
         \o (IF AnyNamed(attrs.optional, "height")
             THEN << PushIfSome("height", "LayoutAttr::Height") >> ELSE << >>)
    ELSE << >>

layout_attrs_impl(attrs) ==
    << PushIfSome("placement", "LayoutAttr::Placement"),
       PushIfSome("writing_mode", "LayoutAttr::WritingMode") >>
    \o layout_attrs_items(attrs)

\* Variant: the heading tag is matched under another name.
attrs_impl_extra_H(name) ==
    IF name = "H" THEN << PushAlways("level", "Attr::HeadingLevel") >>
    ELSE << >>

attrs_impl_extra(name) ==
    IF name = "Hn" THEN << PushAlways("level", "Attr::HeadingLevel") >>
    ELSE << >>

\* Variant: the general bucket also takes the global placement.
attrs_impl_WithPlacement(name) ==
    << PushIfSome("id", "Attr::Id"),
       PushIfSome("title", "Attr::Title"),
       PushIfSome("lang", "Attr::Lang"),
       PushIfSome("alt_text", "Attr::AltText"),
       PushIfSome("expanded", "Attr::Expanded"),
       PushIfSome("actual_text", "Attr::ActualText"),
       PushIfSome("placement", "Attr::Placement") >>
    \o attrs_impl_extra(name)

\* The body of attrs() in the returned template.
attrs_impl(name) ==
    << PushIfSome("id", "Attr::Id"),
       PushIfSome("title", "Attr::Title"),
       PushIfSome("lang", "Attr::Lang"),
       PushIfSome("alt_text", "Attr::AltText"),
       PushIfSome("expanded", "Attr::Expanded"),
       PushIfSome("actual_text", "Attr::ActualText") >>
    \o attrs_impl_extra(name)

generate_accessor_impl_for_tag(tag) ==
    LET name == tag.name
        attrs == tag.attrs
    IN  [attrs |-> attrs_impl(name),
         list_attrs |-> list_attrs_impl(name),
         table_attrs |-> table_attrs_items(name, attrs),
         layout_attrs |-> layout_attrs_impl(attrs)]

StructName(name) == <<name, "Tag">>

\* "if not attrs.get('required')": no key, or an empty list
HasNoRequired(attrs) == GetList(attrs, "required") = << >>

generate_tag_struct(tag) ==
    LET name == tag.name
        attrs == tag.attrs
    IN  [kind |-> "struct",
         name |-> name,
         struct_name |-> StructName(name),
         fields |-> generate_struct_fields(attrs, schema.global_attrs),
         constructor |-> generate_constructor(name, attrs),
         builders |-> generate_builder_methods(name, attrs),
         accessor_impl |-> generate_accessor_impl_for_tag(tag),
         default_impl |-> HasNoRequired(attrs)]

-----------------------------------------------------------------------------
(* Capability Interface Emitter                                            *)

generate_tag_trait ==
    [kind |-> "trait",
     methods |-> << "id", "lang", "alt_text", "expanded", "actual_text",
                    "location", "placement", "writing_mode", "title", "headers",
                    "attrs", "list_attrs", "table_attrs", "layout_attrs" >>]

generate_tag_trait_impl(tag) ==
    LET attrs == tag.attrs
        has_headers == IF "optional" \in DOMAIN attrs
                       THEN AnyNamed(attrs.optional, "headers") ELSE FALSE
    IN  [kind |-> "trait_impl",
         name |-> tag.name,
         struct_name |-> StructName(tag.name),
         headers_impl |-> IF has_headers THEN "self.headers" ELSE "None"]

-----------------------------------------------------------------------------
(* Union Emitter                                                           *)

\* "matches!(self, TagKind::A(_) | TagKind::B(_))"
Matches(method, variants) == [name |-> method, kind |-> "matches", variants |-> variants]
\* "match self { TagKind::V(tag) => Some(tag.field), _ => None }"
Narrow(method, variant, field) ==
    [name |-> method, kind |-> "narrow", variant |-> variant, field |-> field]

should_have_alt == Matches("should_have_alt", <<"Figure", "Formula">>)
can_have_title == Matches("can_have_title", <<"Hn">>)

NarrowAccessor(name) ==
    IF name = "Hn" THEN << Narrow("heading_level", "Hn", "level") >>
    ELSE IF name = "L" THEN << Narrow("list_numbering", "L", "numbering") >>
    ELSE IF name = "TH" THEN << Narrow("header_scope", "TH", "scope") >>
    ELSE << >>

RECURSIVE NarrowAccessors(_)
NarrowAccessors(tags) ==
    IF tags = << >> THEN << >>
    ELSE NarrowAccessor(Head(tags).name) \o NarrowAccessors(Tail(tags))

generate_tag_accessor_methods(tags) ==
    NarrowAccessors(tags) \o << should_have_alt, can_have_title >>

\* Variant: the arm of the last tag is missing.
inner_arms_SkipLast(tags) == [i \in 1..(Len(tags) - 1) |-> tags[i].name]

inner_arms(tags) == [i \in DOMAIN tags |-> tags[i].name]

generate_tag_kind_enum(tags) ==
    [kind |-> "enum",
     variants |-> [i \in DOMAIN tags |->
                      [name |-> tags[i].name, holds |-> StructName(tags[i].name)]],
     from_impls |-> [i \in DOMAIN tags |->
                        [from |-> StructName(tags[i].name), variant |-> tags[i].name]],
     inner_arms |-> inner_arms(tags),
     accessor_methods |-> generate_tag_accessor_methods(tags)]

-----------------------------------------------------------------------------
(* Facade Emitter                                                          *)

\* Variant: the hard-coded list misses the title.
FacadeGlobalInits_NoTitle ==
    << [name |-> "id", value |-> "None"],
       [name |-> "lang", value |-> "None"],
       [name |-> "alt_text", value |-> "None"],
       [name |-> "expanded", value |-> "None"],
       [name |-> "actual_text", value |-> "None"],
       [name |-> "location", value |-> "None"],
       [name |-> "placement", value |-> "None"],
       [name |-> "writing_mode", value |-> "None"] >>

\* The initialisers the facade constants start with.
FacadeGlobalInits ==
    << [name |-> "id", value |-> "None"],
       [name |-> "lang", value |-> "None"],
       [name |-> "alt_text", value |-> "None"],
       [name |-> "expanded", value |-> "None"],
       [name |-> "actual_text", value |-> "None"],
       [name |-> "location", value |-> "None"],
       [name |-> "placement", value |-> "None"],
       [name |-> "writing_mode", value |-> "None"],
       [name |-> "title", value |-> "None"] >>

convenience_constructor(tag) ==
    LET name == tag.name
        attrs == tag.attrs
        required == GetList(attrs, "required")
        params == [i \in DOMAIN required |-> Field(required[i], required[i].type)]
    IN  IF params # << >>
        THEN [name |-> name, form |-> "fn", params |-> params,
              variant |-> name,
              calls |-> <<StructName(name), "new">>,
              args |-> [i \in DOMAIN required |-> required[i].name]]
        ELSE [name |-> name, form |-> "const",
              variant |-> name,
              literal |-> StructName(name),
              inits |-> FacadeGlobalInits
                        \o (IF "optional" \in DOMAIN attrs
                            THEN [i \in DOMAIN attrs.optional |->
                                     InitNone(attrs.optional[i])]
                            ELSE << >>)]

generate_convenience_constructors ==
    [kind |-> "facade",
     constructors |-> [i \in DOMAIN schema.tags |->
                          convenience_constructor(schema.tags[i])]]

-----------------------------------------------------------------------------
(* Assembler and main                                                      *)

\* Variant: the header carries a stamp of the run.
header_Stamped ==
    [kind |-> "header", text |-> "auto-generated - DO NOT EDIT MANUALLY", stamp |-> run]

header == [kind |-> "header", text |-> "auto-generated - DO NOT EDIT MANUALLY"]

NoFile == [exists |-> FALSE, content |-> << >>]
NoVal == [tag |-> "", present |-> EmptyDict]
\* snake_case is not being called.
NoCall == [name |-> << >>, i |-> 0, result |-> << >>]

Init ==
    /\ schema_name = "TAG_SCHEMA"
    /\ pc = "main"
    /\ components = << >>
    /\ idx = 0
    /\ rust_code = << >>
    /\ file = NoFile
    /\ val = NoVal
    /\ run = 1
    /\ prev_file = NoFile
    /\ snake = NoCall

\* generate_rust_code: the header and the capability interface
Begin ==
    /\ pc = "main"
    /\ components' = << header, generate_tag_trait >>
    /\ idx' = 1
    /\ pc' = "tags"
    /\ UNCHANGED <<snake, schema_name, rust_code, file, val, run, prev_file>>

\* Variant: the interface implementation is appended before the record.
EmitTag_ImplFirst ==
    /\ pc = "tags"
    /\ idx <= Len(schema.tags)
    /\ components' = components \o << generate_tag_trait_impl(schema.tags[idx]),
                                      generate_tag_struct(schema.tags[idx]) >>
    /\ idx' = idx + 1
    /\ UNCHANGED <<snake, schema_name, pc, rust_code, file, val, run, prev_file>>

\* generate_rust_code: one iteration of the loop over the tags
EmitTag ==
    /\ pc = "tags"
    /\ idx <= Len(schema.tags)
    /\ components' = components \o << generate_tag_struct(schema.tags[idx]),
                                      generate_tag_trait_impl(schema.tags[idx]) >>
    /\ idx' = idx + 1
    /\ UNCHANGED <<snake, schema_name, pc, rust_code, file, val, run, prev_file>>

EmitEnum ==
    /\ pc = "tags"
    /\ idx > Len(schema.tags)
    /\ components' = Append(components, generate_tag_kind_enum(schema.tags))
    /\ pc' = "facade"
    /\ UNCHANGED <<snake, schema_name, idx, rust_code, file, val, run, prev_file>>

EmitFacade ==
    /\ pc = "facade"
    /\ components' = Append(components, generate_convenience_constructors)
    /\ pc' = "join"
    /\ UNCHANGED <<snake, schema_name, idx, rust_code, file, val, run, prev_file>>

\* '\n'.join(components), returned to main
Join ==
    /\ pc = "join"
    /\ rust_code' = components
    /\ components' = << >>
    /\ idx' = 0
    /\ pc' = "open"
    /\ UNCHANGED <<snake, schema_name, file, val, run, prev_file>>

\* Variant: the file is opened for appending.
OpenOutput_Append ==
    /\ pc = "open"
    /\ file' = [exists |-> TRUE, content |-> file.content]
    /\ pc' = "write"
    /\ UNCHANGED <<snake, schema_name, components, idx, rust_code, val, run, prev_file>>

\* open(output_path, 'w') creates or truncates the file
OpenOutput ==
    /\ pc = "open"
    /\ file' = [exists |-> TRUE, content |-> << >>]
    /\ pc' = "write"
    /\ UNCHANGED <<snake, schema_name, components, idx, rust_code, val, run, prev_file>>

\* f.write(rust_code) on the opened file, closed on leaving the with block
WriteOutput ==
    /\ pc = "write"
    /\ file' = [exists |-> TRUE, content |-> file.content \o rust_code]
    /\ pc' = "print"
    /\ UNCHANGED <<snake, schema_name, components, idx, rust_code, val, run, prev_file>>

\* print(..), and main returns
PrintGenerated ==
    /\ pc = "print"
    /\ rust_code' = << >>
    /\ pc' = "done"
    /\ UNCHANGED <<snake, schema_name, components, idx, file, val, run, prev_file>>

\* The script is run again on the unchanged schema.
RunAgain ==
    /\ pc = "done"
    /\ run < MaxRuns
    /\ run' = run + 1
    /\ prev_file' = file
    /\ val = NoVal
    /\ pc' = "main"
    /\ UNCHANGED <<snake, schema_name, components, idx, rust_code, file, val>>

-----------------------------------------------------------------------------
(* The emitted code, interpreted                                           *)

Fragments(code, kind) == SelectSeq(code, LAMBDA c : c.kind = kind)

TagNames == { schema.tags[i].name : i \in DOMAIN schema.tags }
SchemaTag(T) == schema.tags[CHOOSE i \in DOMAIN schema.tags : schema.tags[i].name = T]

\* The record fragment of tag T in the generated code.
StructOf(code, T) ==
    LET structs == Fragments(code, "struct")
    IN  structs[CHOOSE i \in DOMAIN structs : structs[i].name = T]

FacadeOf(code, T) ==
    LET cs == Fragments(code, "facade")[1].constructors
    IN  cs[CHOOSE i \in DOMAIN cs : cs[i].name = T]

\* The value of a struct expression: a field initialised from a parameter
\* holds a value, a field initialised to None holds none.
StructExpr(T, inits) ==
    [tag |-> T,
     present |-> [f \in { inits[i].name : i \in DOMAIN inits } |->
                    \E i \in DOMAIN inits : inits[i].name = f /\ inits[i].value = "param"]]

\* T::new(..)
CallNew(T) ==
    /\ pc = "done"
    /\ val = NoVal
    /\ val' = StructExpr(T, StructOf(file.content, T).constructor.inits)
    /\ UNCHANGED <<snake, schema_name, pc, components, idx, rust_code, file, run, prev_file>>

\* T::default(), emitted only for tags without required attributes
CallDefault(T) ==
    /\ pc = "done"
    /\ val = NoVal
    /\ StructOf(file.content, T).default_impl
    /\ val' = StructExpr(T, StructOf(file.content, T).constructor.inits)
    /\ UNCHANGED <<snake, schema_name, pc, components, idx, rust_code, file, run, prev_file>>

\* Tag::T or Tag::T(..)
CallFacade(T) ==
    /\ pc = "done"
    /\ val = NoVal
    /\ LET c == FacadeOf(file.content, T)
       IN  val' = IF c.form = "fn"
                  THEN StructExpr(T, StructOf(file.content, T).constructor.inits)
                  ELSE StructExpr(T, c.inits)
    /\ UNCHANGED <<snake, schema_name, pc, components, idx, rust_code, file, run, prev_file>>

\* The number of fields of v that were given a value by a setter.
NumSet(v) ==
    Cardinality({ f \in DOMAIN v.present : v.present[f] })
    - Len(StructOf(file.content, v.tag).constructor.params)

\* value.with_<field>(..)
CallSetter(m) ==
    /\ pc = "done"
    /\ val # NoVal
    /\ m \in Range(StructOf(file.content, val.tag).builders)
    /\ m.field \in DOMAIN val.present
    /\ val.present[m.field] \/ NumSet(val) < MaxSet
    /\ val' = [val EXCEPT !.present[m.field] = TRUE]
    /\ UNCHANGED <<snake, schema_name, pc, components, idx, rust_code, file, run, prev_file>>

\* The value goes out of scope.
Drop ==
    /\ pc = "done"
    /\ val # NoVal
    /\ val' = NoVal
    /\ UNCHANGED <<snake, schema_name, pc, components, idx, rust_code, file, run, prev_file>>

\* The entries a generated bucket accessor returns on value v.
Pushed(items, v) ==
    SelectSeq(items, LAMBDA it : it.guard = Unconditional \/ v.present[it.guard])

BucketNames == {"attrs", "list_attrs", "table_attrs", "layout_attrs"}

Bucket(b, v) == Pushed(StructOf(file.content, v.tag).accessor_impl[b], v)

Setters ==
    IF val = NoVal THEN {} ELSE Range(StructOf(file.content, val.tag).builders)

Next ==
    \/ Begin
    \/ EmitTag
    \/ EmitEnum
    \/ EmitFacade
    \/ Join
    \/ OpenOutput
    \/ WriteOutput
    \/ PrintGenerated
    \/ RunAgain
    \/ \E T \in TagNames : CallNew(T)
    \/ \E T \in TagNames : CallDefault(T)
    \/ \E T \in TagNames : CallFacade(T)
    \/ \E m \in Setters : CallSetter(m)
    \/ Drop

Spec == Init /\ [][Next]_vars

-----------------------------------------------------------------------------
(* Properties                                                              *)

GlobalNames == { schema.global_attrs[i].name : i \in DOMAIN schema.global_attrs }
Names(list) == [i \in DOMAIN list |-> list[i].name]
Count(seq, Test(_)) == Len(SelectSeq(seq, Test))

\* The entries of bucket b of value v that carry field f.
EntriesFor(b, f, v) == SelectSeq(Bucket(b, v), LAMBDA it : it.arg = f)
BucketsHolding(f, v) == { b \in BucketNames : EntriesFor(b, f, v) # << >> }
PresentFields(v) == { f \in DOMAIN v.present : v.present[f] }

\* C1 as stated: every field of a record value that holds a value has an
\* entry in exactly one of the four buckets.
C1_EveryFieldInOneBucket ==
    val # NoVal =>
        \A f \in PresentFields(val) : Cardinality(BucketsHolding(f, val)) = 1

\* C1, amended: every field that holds a value, other than the global
\* location, has exactly one entry, in exactly one of the four buckets; a
\* location that holds a value has an entry in no bucket.
C1_EveryFieldButLocationInOneBucket ==
    val # NoVal =>
        \A f \in PresentFields(val) :
            IF f = "location"
            THEN BucketsHolding(f, val) = {}
            ELSE /\ Cardinality(BucketsHolding(f, val)) = 1
                 /\ \A b \in BucketsHolding(f, val) : Len(EntriesFor(b, f, val)) = 1

C1_Witness ==
    /\ val.tag = "TH"
    /\ PresentFields(val) = {"scope", "location", "width"}

\* C2 as stated: every global attribute that holds a value is in the general
\* bucket and in none of the list, table and layout buckets.
C2_GlobalsAreGeneral ==
    val # NoVal =>
        \A g \in GlobalNames \cap PresentFields(val) : BucketsHolding(g, val) = {"attrs"}

\* C2, amended: of the global attributes, id, lang, alt_text, expanded,
\* actual_text and title are bucketed as general attributes only, placement
\* and writing_mode as layout attributes only, and location in no bucket.
C2_GlobalsBucketedByRole ==
    val # NoVal =>
        /\ GlobalNames = {"id", "lang", "alt_text", "expanded", "actual_text",
                          "title", "placement", "writing_mode", "location"}
        /\ \A g \in GlobalNames \cap PresentFields(val) :
              BucketsHolding(g, val) =
                  IF g \in {"id", "lang", "alt_text", "expanded", "actual_text", "title"}
                  THEN {"attrs"}
                  ELSE IF g \in {"placement", "writing_mode"} THEN {"layout_attrs"}
                  ELSE {}

C2_Witness ==
    /\ val.tag = "Figure"
    /\ PresentFields(val) = {"placement", "title"}

CategoryBucket(category) ==
    IF category = "table_attr" THEN "table_attrs"
    ELSE IF category = "layout_attr" THEN "layout_attrs"
    ELSE IF category = "list_attr" THEN "list_attrs"
    ELSE "attrs"

\* v is a freshly constructed value on which only attribute a was set.
OnlySet(v, a) ==
    PresentFields(v) = Range(Names(GetList(SchemaTag(v.tag).attrs, "required"))) \cup {a}

\* C3: every tag-local optional attribute A of a tag has a setter with_A,
\* and on a fresh value with only A set, the bucket of A's declared category
\* holds an entry for A and no other bucket does.
C3_SetterReachesCategoryBucket ==
    val # NoVal =>
        LET optional == GetList(SchemaTag(val.tag).attrs, "optional")
            builders == StructOf(file.content, val.tag).builders
        IN  \A i \in DOMAIN optional :
                /\ \E k \in DOMAIN builders :
                      /\ builders[k].method = <<"with_", optional[i].name>>
                      /\ builders[k].field = optional[i].name
                /\ OnlySet(val, optional[i].name) =>
                      BucketsHolding(optional[i].name, val)
                          = {CategoryBucket(optional[i].category)}

C3_Witness ==
    /\ val.tag = "TD"
    /\ PresentFields(val) = {"span"}
    /\ Len(Bucket("table_attrs", val)) = 1

\* A Rust type is nullable when it is Option<..>.
Nullable(type) == Len(type) >= 3 /\ type[1] = "Option<" /\ type[Len(type)] = ">"

\* The record of fragment c has the fields of its tag: global, required,
\* optional, in that order, with the required types as declared and the
\* others nullable.
FieldsFollowSchema(c) ==
    LET attrs == SchemaTag(c.name).attrs
        globals == schema.global_attrs
        required == GetList(attrs, "required")
        optional == GetList(attrs, "optional")
        g == Len(globals)
        r == Len(required)
    IN  /\ Len(c.fields) = g + r + Len(optional)
        /\ Names(c.fields) = Names(globals) \o Names(required) \o Names(optional)
        /\ \A i \in DOMAIN globals : Nullable(c.fields[i].type)
        /\ \A i \in DOMAIN required :
              /\ ~Nullable(c.fields[g + i].type)
              /\ c.fields[g + i].type = required[i].type
        /\ \A i \in DOMAIN optional :
              /\ Nullable(c.fields[g + r + i].type)
              /\ c.fields[g + r + i].type =
                    IF Nullable(optional[i].type) THEN optional[i].type
                    ELSE <<"Option<">> \o optional[i].type \o <<">">>

\* C4: the record emitted for a tag has |global| + |required| + |optional|
\* fields, in the order global, required, optional; required fields are not
\* nullable, global and optional fields are, an optional one being wrapped
\* only when its declared type is not nullable already.
C4_RecordFields ==
    \A i \in DOMAIN components :
        components[i].kind = "struct" => FieldsFollowSchema(components[i])

C4_Witness ==
    /\ pc = "tags"
    /\ \E i \in DOMAIN components :
          /\ components[i].kind = "struct"
          /\ components[i].name = "TH"
          /\ Len(components[i].fields) = 14

HeadingLevels(v) == Count(Bucket("attrs", v), LAMBDA it : it.entry = "Attr::HeadingLevel")

\* C5: the general bucket of a heading holds exactly one heading-level entry
\* whichever global attributes are set, and the general bucket of any other
\* tag holds none.
C5_OneHeadingLevel ==
    val # NoVal => HeadingLevels(val) = IF val.tag = "Hn" THEN 1 ELSE 0

C5_Witness ==
    /\ val.tag = "Hn"
    /\ PresentFields(val) = {"level", "id", "title"}
    /\ HeadingLevels(val) = 1

TableEntries(v, entry) == Count(Bucket("table_attrs", v), LAMBDA it : it.entry = entry)

\* C6: the table bucket of a header cell holds exactly one header-scope
\* entry, a cell-headers entry iff headers is set, a cell-span entry iff span
\* is set, and nothing else.
C6_HeaderCellTableBucket ==
    val.tag = "TH" =>
        /\ TableEntries(val, "TableAttr::HeaderScope") = 1
        /\ TableEntries(val, "TableAttr::CellHeaders")
              = IF val.present["headers"] THEN 1 ELSE 0
        /\ TableEntries(val, "TableAttr::CellSpan")
              = IF val.present["span"] THEN 1 ELSE 0
        /\ \A i \in DOMAIN Bucket("table_attrs", val) :
              Bucket("table_attrs", val)[i].entry \in
                  {"TableAttr::HeaderScope", "TableAttr::CellHeaders", "TableAttr::CellSpan"}

C6_Witness ==
    /\ val.tag = "TH"
    /\ PresentFields(val) = {"scope", "headers", "width"}
    /\ Len(Bucket("table_attrs", val)) = 2

\* C7: the list bucket is empty for every tag but L, and for L it holds
\* exactly one list-numbering entry, for its required numbering.
C7_ListBucket ==
    val # NoVal =>
        Bucket("list_attrs", val) =
            IF val.tag = "L"
            THEN << [guard |-> Unconditional, entry |-> "ListAttr::Numbering",
                     arg |-> "numbering"] >>
            ELSE << >>

C7_Witness ==
    /\ val.tag = "L"
    /\ val.present["numbering"]
    /\ Len(Bucket("list_attrs", val)) = 1

NoDuplicates(seq) == \A i, j \in DOMAIN seq : seq[i] = seq[j] => i = j

\* The facade entry c of tag T, next to T's record fragment st.
FacadeEntryFollowsSchema(c, st) ==
    LET attrs == SchemaTag(c.name).attrs
        required == GetList(attrs, "required")
        optional == GetList(attrs, "optional")
    IN  IF required = << >>
        THEN /\ st.constructor.params = << >>
             /\ st.default_impl
             /\ c.form = "const"
             /\ Range(c.inits) = Range(st.constructor.inits)
             /\ NoDuplicates(Names(c.inits))
             /\ NoDuplicates(Names(st.constructor.inits))
             /\ Range(Names(c.inits)) = GlobalNames \cup Range(Names(optional))
             /\ \A i \in DOMAIN c.inits : c.inits[i].value = "None"
        ELSE /\ c.form = "fn"
             /\ c.params = [i \in DOMAIN required |->
                               [name |-> required[i].name, type |-> required[i].type]]

\* C8: a tag without required attributes gets new() without parameters, a
\* Default implementation and a facade constant, and the constant
\* initialises the fields new() initialises: every global and optional
\* field, once, to absent; a tag with required attributes gets a facade
\* function taking exactly the required attributes in schema order.
C8_ZeroArgumentConstruction ==
    \A i \in DOMAIN components :
        components[i].kind = "facade" =>
            /\ Names(components[i].constructors) = Names(schema.tags)
            /\ \A k \in DOMAIN components[i].constructors :
                  FacadeEntryFollowsSchema(
                      components[i].constructors[k],
                      StructOf(components, components[i].constructors[k].name))

C8_Witness ==
    /\ pc = "join"
    /\ \E i \in DOMAIN components :
          /\ components[i].kind = "facade"
          /\ \E k \in DOMAIN components[i].constructors :
                /\ components[i].constructors[k].name = "Table"
                /\ components[i].constructors[k].form = "const"
                /\ Len(components[i].constructors[k].inits) = 13

\* The value of a "matches!" predicate on a variant.
EvalMatches(m, variant) == variant \in Range(m.variants)

PredicateCovers(methods, name, trueFor) ==
    /\ Count(methods, LAMBDA m : m.name = name) = 1
    /\ \A k \in DOMAIN methods :
          methods[k].name = name =>
              /\ methods[k].kind = "matches"
              /\ Range(methods[k].variants) \subseteq TagNames
              /\ \A T \in TagNames : EvalMatches(methods[k], T) <=> T \in trueFor

\* C9: inner() has exactly one arm per declared tag, in schema order, and
\* should_have_alt and can_have_title are defined on every declared
\* variant, the first true for Figure and Formula only, the second for Hn
\* only.
C9_DispatchExhaustive ==
    \A i \in DOMAIN components :
        components[i].kind = "enum" =>
            /\ components[i].inner_arms = Names(schema.tags)
            /\ NoDuplicates(components[i].inner_arms)
            /\ Names(components[i].variants) = components[i].inner_arms
            /\ PredicateCovers(components[i].accessor_methods,
                               "should_have_alt", {"Figure", "Formula"})
            /\ PredicateCovers(components[i].accessor_methods,
                               "can_have_title", {"Hn"})

C9_Witness ==
    /\ pc = "facade"
    /\ \E i \in DOMAIN components :
          /\ components[i].kind = "enum"
          /\ Len(components[i].inner_arms) = 33

-----------------------------------------------------------------------------
(* Generation from an edited schema                                        *)

SchemaNames == {"TAG_SCHEMA", "duplicate_tag", "unknown_category"}

InitEdited ==
    /\ schema_name \in SchemaNames
    /\ pc = "main"
    /\ components = << >>
    /\ idx = 0
    /\ rust_code = << >>
    /\ file = NoFile
    /\ val = NoVal
    /\ run = 1
    /\ prev_file = NoFile
    /\ snake = NoCall

\* The steps of main.
NextGenerate ==
    \/ Begin
    \/ EmitTag
    \/ EmitEnum
    \/ EmitFacade
    \/ Join
    \/ OpenOutput
    \/ WriteOutput
    \/ PrintGenerated
    \/ RunAgain

SpecEdited == InitEdited /\ [][NextGenerate]_vars

KnownCategories == {"none", "list_attr", "table_attr", "layout_attr"}

HasDuplicateTagName(sch) ==
    \E i, j \in DOMAIN sch.tags : i # j /\ sch.tags[i].name = sch.tags[j].name

\* The run has emitted or written nothing.
NothingEmitted ==
    /\ components = << >>
    /\ rust_code = << >>
    /\ file = prev_file

\* C11: when two tags of the schema share a name, generation fails before
\* any fragment is emitted and before any output is written.
C11_DuplicateTagNameFails ==
    HasDuplicateTagName(schema) => NothingEmitted /\ pc # "done"

AllAttributes(sch) ==
    UNION { Range(GetList(sch.tags[i].attrs, "required"))
            \cup Range(GetList(sch.tags[i].attrs, "optional")) : i \in DOMAIN sch.tags }
    \cup Range(sch.global_attrs)

HasUnknownCategory(sch) ==
    \E a \in AllAttributes(sch) :
        "category" \in DOMAIN a /\ a.category \notin KnownCategories

\* C12: when an attribute of the schema carries a category that is none of
\* none, list_attr, table_attr, layout_attr, generation fails: no output
\* text is produced and no output is written.
C12_UnknownCategoryFails ==
    HasUnknownCategory(schema) =>
        /\ pc \notin {"open", "write", "print", "done"}
        /\ rust_code = << >>
        /\ file = prev_file

-----------------------------------------------------------------------------
(* Runs of main that fail                                                  *)

\* An exception leaves generate_rust_code before it returns.
RaiseInGenerate ==
    /\ pc \in {"main", "tags", "facade", "join"}
    /\ pc' = "raised_in_generate"
    /\ components' = << >>
    /\ idx' = 0
    /\ UNCHANGED <<snake, schema_name, rust_code, file, val, run, prev_file>>

\* open(output_path, 'w') raises: the file is neither created nor truncated.
RaiseInOpen ==
    /\ pc = "open"
    /\ pc' = "raised_in_open"
    /\ rust_code' = << >>
    /\ UNCHANGED <<snake, schema_name, components, idx, file, val, run, prev_file>>

\* f.write(..) or the closing flush raises: the truncated file holds the
\* part of the text that reached it.
RaiseInWrite ==
    /\ pc = "write"
    /\ \E k \in 0..Len(rust_code) :
          file' = [exists |-> TRUE, content |-> file.content \o SubSeq(rust_code, 1, k)]
    /\ pc' = "raised_in_write"
    /\ rust_code' = << >>
    /\ UNCHANGED <<snake, schema_name, components, idx, val, run, prev_file>>

NextRun ==
    \/ NextGenerate
    \/ RaiseInGenerate
    \/ RaiseInOpen
    \/ RaiseInWrite

SpecRun == Init /\ [][NextRun]_vars

\* The whole output text of the schema: header, interface, two fragments
\* per tag, union, facade.
Complete(code) ==
    /\ Len(code) = 2 * Len(schema.tags) + 4
    /\ code[1].kind = "header"
    /\ code[Len(code)].kind = "facade"

\* The output file is as the run found it.
FileUntouched == file = prev_file

\* The output file is untouched until the whole text is generated, and the
\* write replaces its whole content by that text.
WrittenOnceAfterGenerating ==
    /\ pc \in {"main", "tags", "facade", "join", "open"} => FileUntouched
    /\ pc \in {"open", "write", "print"} => Complete(rust_code)
    /\ pc = "write" => file = [exists |-> TRUE, content |-> << >>]
    /\ pc = "print" => file = [exists |-> TRUE, content |-> rust_code]
    /\ pc = "done" => file.exists /\ Complete(file.content)

\* C13 as stated: the file is opened and written only after the whole text
\* is generated, as one whole-file overwrite, and a failure at any point of
\* the run leaves no partially written file.
C13_NoPartialFileOnAnyFailure ==
    /\ WrittenOnceAfterGenerating
    /\ pc \in {"raised_in_generate", "raised_in_open", "raised_in_write"} =>
          FileUntouched \/ Complete(file.content)

\* C13, amended: the file is opened and written only after the whole text
\* is generated, as one whole-file overwrite, and a failure before the file
\* is opened (while generating, or in open itself) leaves the file as the
\* run found it.
C13_NoPartialFileOnFailureBeforeOpen ==
    /\ WrittenOnceAfterGenerating
    /\ pc \in {"raised_in_generate", "raised_in_open"} => FileUntouched

C13_Witness ==
    /\ run = 2
    /\ pc = "raised_in_open"
    /\ file.exists
    /\ Complete(file.content)

\* What a sequence of fragments consists of: the kind of each fragment
\* and, for a record or an implementation, its tag.
Outline(code) ==
    [i \in DOMAIN code |->
        IF code[i].kind \in {"struct", "trait_impl"}
        THEN <<code[i].kind, code[i].name>>
        ELSE <<code[i].kind>>]

ExpectedOutline ==
    << <<"header">>, <<"trait">> >>
    \o [i \in 1..(2 * Len(schema.tags)) |->
           IF i % 2 = 1 THEN <<"struct", schema.tags[(i + 1) \div 2].name>>
           ELSE <<"trait_impl", schema.tags[i \div 2].name>>]
    \o << <<"enum">>, <<"facade">> >>

\* C14: the output is the header, the capability interface, then for each
\* tag in schema order its record followed by its implementation, then the
\* union with its conversions, then the facade; nothing is reordered,
\* dropped or duplicated, while the fragments are collected or afterwards.
C14_FragmentsInFixedOrder ==
    /\ Len(components) <= Len(ExpectedOutline)
    /\ Outline(components) = SubSeq(ExpectedOutline, 1, Len(components))
    /\ pc \in {"open", "write", "print"} => Outline(rust_code) = ExpectedOutline
    /\ pc = "done" => Outline(file.content) = ExpectedOutline
    /\ \A i \in DOMAIN components :
          components[i].kind = "enum" =>
              [k \in DOMAIN components[i].from_impls |->
                  components[i].from_impls[k].variant] = Names(schema.tags)

C14_Witness ==
    /\ pc = "done"
    /\ Len(file.content) = 70
    /\ Outline(file.content)[3] = <<"struct", "Part">>
    /\ Outline(file.content)[4] = <<"trait_impl", "Part">>
    /\ Outline(file.content)[69] = <<"enum">>

-----------------------------------------------------------------------------
(* Name Transformer                                                        *)

\* Identifiers are sequences of letters; two capitals and two small letters
\* stand for the alphabet.
UpperLetters == {"A", "B"}
LowerLetters == {"a", "b"}
Letters == UpperLetters \cup LowerLetters

\* str.isupper, str.islower, str.lower on one letter
IsUpper(char) == char \in UpperLetters
IsLower(char) == char \in LowerLetters
ToLower(char) == IF char = "A" THEN "a" ELSE IF char = "B" THEN "b" ELSE char

Identifiers == UNION { [1..n -> Letters] : n \in 1..MaxLen }

\* Variant: only the following letter is looked at.
InsertsUnderscore_NextOnly(name, i) ==
    /\ IsUpper(name[i + 1])
    /\ i > 0
    /\ (i + 1 < Len(name) /\ IsLower(name[i + 2]))

\* The condition of the loop body, i counting from 0 as in the source.
InsertsUnderscore(name, i) ==
    /\ IsUpper(name[i + 1])
    /\ i > 0
    /\ \/ (i + 1 < Len(name) /\ IsLower(name[i + 2]))
       \/ IsLower(name[i])

InitSnake ==
    /\ schema_name = "TAG_SCHEMA"
    /\ pc = "snake_case"
    /\ components = << >>
    /\ idx = 0
    /\ rust_code = << >>
    /\ file = NoFile
    /\ val = NoVal
    /\ run = 1
    /\ prev_file = NoFile
    /\ \E name \in Identifiers : snake = [name |-> name, i |-> 0, result |-> << >>]

\* One iteration of "for i, char in enumerate(name)"
SnakeLoop ==
    /\ pc = "snake_case"
    /\ snake.i < Len(snake.name)
    /\ snake' = [snake EXCEPT
          !.result = @ \o (IF InsertsUnderscore(snake.name, snake.i)
                           THEN <<"_">> ELSE << >>)
                       \o << ToLower(snake.name[snake.i + 1]) >>,
          !.i = @ + 1]
    /\ UNCHANGED <<schema_name, pc, components, idx, rust_code, file, val, run, prev_file>>

\* return ''.join(result)
SnakeReturn ==
    /\ pc = "snake_case"
    /\ snake.i = Len(snake.name)
    /\ pc' = "snake_returned"
    /\ UNCHANGED <<snake, schema_name, components, idx, rust_code, file, val, run, prev_file>>

NextSnake ==
    \/ SnakeLoop
    \/ SnakeReturn

SpecSnake == InitSnake /\ [][NextSnake]_vars

\* The k-th letter (from 1) is a capital with a small letter right after it
\* or right before it; with interior, the first letter never qualifies.
AtBoundary(name, k, interior) ==
    /\ IsUpper(name[k])
    /\ interior => k > 1
    /\ \/ (k < Len(name) /\ IsLower(name[k + 1]))
       \/ (k > 1 /\ IsLower(name[k - 1]))

\* name from its k-th letter on, lower-cased, with an underscore before
\* every letter at a boundary.
RECURSIVE Underscored(_, _, _)
Underscored(name, k, interior) ==
    IF k > Len(name) THEN << >>
    ELSE (IF AtBoundary(name, k, interior) THEN <<"_">> ELSE << >>)
         \o << ToLower(name[k]) >>
         \o Underscored(name, k + 1, interior)

\* C15 as stated: snake_case returns the identifier lower-cased, with an
\* underscore before a capital exactly when the letter after it or the
\* letter before it is a small letter.
C15_UnderscoreAtEveryBoundary ==
    pc = "snake_returned" => snake.result = Underscored(snake.name, 1, FALSE)

\* C15, amended: snake_case returns the identifier lower-cased, with an
\* underscore before a capital other than the first letter exactly when
\* the letter after it or the letter before it is a small letter; a run of
\* capitals next to no small letter stays fused, and every identifier of
\* letters gets its result.
C15_UnderscoreAtInteriorBoundary ==
    /\ pc = "snake_returned" =>
          /\ snake.result = Underscored(snake.name, 1, TRUE)
          /\ (\A k \in DOMAIN snake.name : IsUpper(snake.name[k])) =>
                 "_" \notin Range(snake.result)
    /\ pc = "snake_case" => snake.i <= Len(snake.name)

C15_Witness ==
    /\ pc = "snake_returned"
    /\ snake.name = <<"A", "A", "B", "a">>
    /\ snake.result = <<"a", "a", "_", "b", "a">>

====
